---- MODULE Spec2Model ----
(***************************************************************************)
(* Model of the clean-architecture example: Controller -> Interactor ->    *)
(* Repository -> Database, and Interactor -> Presenter -> ViewModel.       *)
(*                                                                         *)
(* A JavaScript object is a TLA+ record whose DOMAIN is the set of the     *)
(* properties it has; a property that is absent reads as undefined.        *)
(* A thrown Error is recorded by its message in "outcome".                 *)
(*                                                                         *)
(* The system is run twice in lockstep (the twin* variables): the twin     *)
(* receives the same calls, except that a non-empty password handed to a   *)
(* create call may be replaced by another non-empty password.  Under Spec  *)
(* the twin receives the very same calls; under SpecNI the passwords vary. *)
(***************************************************************************)
EXTENDS Integers, Sequences, FiniteSets, TLC

\* Largest number of items the Database holds in the model.
MaxItems == 2

\* Argument values tried for each parameter ("" is the empty string).
Ids == {"", "1", "2"}
Usernames == {"", "alice", "bob"}
Passwords == {"", "s3cr3t"}

\* Passwords the twin run may be handed in place of a non-empty password.
TwinPasswords == {"s3cr3t", "hunter2"}

VARIABLES
  items,          \* Database.items: the stored User objects, in push order
  viewModel,      \* the ViewModel object the Presenter was constructed with
  calls,          \* calls the Interactor made to its collaborators in the last call
  outcome,        \* "none" before any call; "ok" or the message of the Error thrown
  lastCall,       \* the last call issued: where, which operation, arguments, inputData
  created,        \* history: the inputData of every executeCreateUser that returned
  scenario,       \* history: how far the calls so far follow the end-to-end scenario
  lastResult,     \* history: <<outputData>> of the latest call that returned, <<>> if none did
  probe,          \* history: <<an earlier executeGetUser>> with no item stored since, or <<>>
  twinItems,      \* Database.items of the twin run
  twinViewModel,  \* ViewModel of the twin run
  twinCalls,      \* collaborator calls of the twin run's last call
  twinOutcome     \* outcome of the twin run's last call

vars == <<items, viewModel, calls, outcome, lastCall, created, scenario, lastResult, probe,
          twinItems, twinViewModel, twinCalls, twinOutcome>>

----------------------------------------------------------------------------
\* JavaScript values

\* const viewModel: ViewModel = {}
EmptyObject == [f \in {} |-> ""]

\* !obj.f : true when the property is absent (undefined) or the empty string
Falsy(obj, f) == f \notin DOMAIN obj \/ obj[f] = ""

\* obj.f = v : sets the property, adding it when absent
SetProperty(obj, f, v) ==
  [g \in DOMAIN obj \cup {f} |-> IF g = f THEN v ELSE obj[g]]

\* new User(id, username, password)
User(id, username, password) ==
  [id |-> id, username |-> username, password |-> password]

----------------------------------------------------------------------------
\* Database

\* Array.prototype.find with the predicate item.id === id: index of the first match, 0 if none
FindIndex(its, id) ==
  LET matches == {i \in 1..Len(its) : its[i].id = id}
  IN IF matches = {} THEN 0
     ELSE CHOOSE i \in matches : \A j \in matches : i <= j

\* As Database.get, but the last matching item is returned
Get_LastMatch(its, id) ==
  LET matches == {i \in 1..Len(its) : its[i].id = id}
  IN IF matches = {} THEN [thrown |-> TRUE, error |-> "Item not found"]
     ELSE [thrown |-> FALSE,
           value |-> its[CHOOSE i \in matches : \A j \in matches : i >= j]]

\* As Database.get, but the first item is returned when none matches
Get_FallsBackToFirst(its, id) ==
  LET i == FindIndex(its, id)
  IN IF i = 0 /\ its = <<>> THEN [thrown |-> TRUE, error |-> "Item not found"]
     ELSE IF i = 0 THEN [thrown |-> FALSE, value |-> its[1]]
     ELSE [thrown |-> FALSE, value |-> its[i]]

\* Database.get: the first matching item, or throws Error("Item not found")
Database_get(its, id) ==
  LET i == FindIndex(its, id)
  IN IF i = 0 THEN [thrown |-> TRUE, error |-> "Item not found"]
     ELSE [thrown |-> FALSE, value |-> its[i]]

\* As Database.create, but the item is put in front (unshift)
Create_PutsInFront(its, item) == <<item>> \o its

\* Database.create: this.items.push(item)
Database_create(its, item) == Append(its, item)

\* Repository.getUser / Repository.createUser delegate to the Database
Repository_getUser(its, id) == Database_get(its, id)

\* As Repository.createUser, but the user is stored twice
CreateUser_StoresTwice(its, user) == Database_create(Database_create(its, user), user)

Repository_createUser(its, user) == Database_create(its, user)

----------------------------------------------------------------------------
\* Presenter

\* As Presenter.present, but only the id is assigned
Present_SetsIdOnly(vm, outputData) == SetProperty(vm, "id", outputData.id)

\* Presenter.present: assigns the two ViewModel properties one after the other
Presenter_present(vm, outputData) ==
  SetProperty(SetProperty(vm, "id", outputData.id), "username", outputData.username)

----------------------------------------------------------------------------
\* Interactor.  A world w is [items, viewModel, calls, outcome].

Throw(w, message) == [w EXCEPT !.outcome = message]

\* As executeGetUser, but the whole User is copied into outputData
GetUser_CopiesPassword(inputData, w) ==
  IF Falsy(inputData, "id") THEN Throw(w, "id is required")
  ELSE
    LET got == Repository_getUser(w.items, inputData.id)
        w1 == [w EXCEPT !.calls = Append(@, [fn |-> "getUser", arg |-> <<inputData.id>>])]
    IN IF got.thrown THEN Throw(w1, got.error)
       ELSE
         LET outputData == got.value
         IN [w1 EXCEPT
               !.calls = Append(@, [fn |-> "present", arg |-> <<outputData>>]),
               !.viewModel = Presenter_present(@, outputData)]

\* As executeGetUser, but only a missing id is refused, not an empty one
GetUser_AcceptsEmptyId(inputData, w) ==
  IF "id" \notin DOMAIN inputData THEN Throw(w, "id is required")
  ELSE
    LET got == Repository_getUser(w.items, inputData.id)
        w1 == [w EXCEPT !.calls = Append(@, [fn |-> "getUser", arg |-> <<inputData.id>>])]
    IN IF got.thrown THEN Throw(w1, got.error)
       ELSE
         LET user == got.value
             outputData == [id |-> user.id, username |-> user.username]
         IN [w1 EXCEPT
               !.calls = Append(@, [fn |-> "present", arg |-> <<outputData>>]),
               !.viewModel = Presenter_present(@, outputData)]

\* As executeGetUser, but outputData.username is taken from user.password
GetUser_PresentsPassword(inputData, w) ==
  IF Falsy(inputData, "id") THEN Throw(w, "id is required")
  ELSE
    LET got == Repository_getUser(w.items, inputData.id)
        w1 == [w EXCEPT !.calls = Append(@, [fn |-> "getUser", arg |-> <<inputData.id>>])]
    IN IF got.thrown THEN Throw(w1, got.error)
       ELSE
         LET user == got.value
             outputData == [id |-> user.id, username |-> user.password]
         IN [w1 EXCEPT
               !.calls = Append(@, [fn |-> "present", arg |-> <<outputData>>]),
               !.viewModel = Presenter_present(@, outputData)]

\* As executeGetUser, but an empty outputData is presented before a failed lookup is rethrown
GetUser_PresentsOnFailure(inputData, w) ==
  IF Falsy(inputData, "id") THEN Throw(w, "id is required")
  ELSE
    LET got == Repository_getUser(w.items, inputData.id)
        w1 == [w EXCEPT !.calls = Append(@, [fn |-> "getUser", arg |-> <<inputData.id>>])]
        outputData == IF got.thrown THEN [id |-> inputData.id, username |-> ""]
                      ELSE [id |-> got.value.id, username |-> got.value.username]
        w2 == [w1 EXCEPT
                 !.calls = Append(@, [fn |-> "present", arg |-> <<outputData>>]),
                 !.viewModel = Presenter_present(@, outputData)]
    IN IF got.thrown THEN Throw(w2, got.error) ELSE w2

\* As executeGetUser, but a User the ViewModel already shows is not presented again
GetUser_SkipsShownUser(inputData, w) ==
  IF Falsy(inputData, "id") THEN Throw(w, "id is required")
  ELSE
    LET got == Repository_getUser(w.items, inputData.id)
        w1 == [w EXCEPT !.calls = Append(@, [fn |-> "getUser", arg |-> <<inputData.id>>])]
    IN IF got.thrown THEN Throw(w1, got.error)
       ELSE
         LET user == got.value
             outputData == [id |-> user.id, username |-> user.username]
         IN IF "id" \in DOMAIN w.viewModel /\ w.viewModel.id = user.id THEN w1
            ELSE [w1 EXCEPT
                    !.calls = Append(@, [fn |-> "present", arg |-> <<outputData>>]),
                    !.viewModel = Presenter_present(@, outputData)]

Interactor_executeGetUser(inputData, w) ==
  IF Falsy(inputData, "id") THEN Throw(w, "id is required")
  ELSE
    LET got == Repository_getUser(w.items, inputData.id)
        w1 == [w EXCEPT !.calls = Append(@, [fn |-> "getUser", arg |-> <<inputData.id>>])]
    IN IF got.thrown THEN Throw(w1, got.error)
       ELSE
         LET user == got.value
             outputData == [id |-> user.id, username |-> user.username]
         IN [w1 EXCEPT
               !.calls = Append(@, [fn |-> "present", arg |-> <<outputData>>]),
               !.viewModel = Presenter_present(@, outputData)]

\* As executeCreateUser, but username is checked before password
CreateUser_UsernameFirst(inputData, w) ==
  IF Falsy(inputData, "id") THEN Throw(w, "id is required")
  ELSE IF Falsy(inputData, "username") THEN Throw(w, "username is required")
  ELSE IF Falsy(inputData, "password") THEN Throw(w, "password is required")
  ELSE
    LET user == User(inputData.id, inputData.username, inputData.password)
        outputData == [id |-> user.id, username |-> user.username]
    IN [w EXCEPT
          !.items = Repository_createUser(@, user),
          !.calls = @ \o <<[fn |-> "createUser", arg |-> <<user>>],
                           [fn |-> "present", arg |-> <<outputData>>]>>,
          !.viewModel = Presenter_present(@, outputData)]

\* As executeCreateUser, but username is checked only after the User was stored
CreateUser_StoresBeforeUsernameCheck(inputData, w) ==
  IF Falsy(inputData, "id") THEN Throw(w, "id is required")
  ELSE IF Falsy(inputData, "password") THEN Throw(w, "password is required")
  ELSE
    LET username == IF "username" \in DOMAIN inputData THEN inputData.username ELSE ""
        user == User(inputData.id, username, inputData.password)
        outputData == [id |-> user.id, username |-> user.username]
        w1 == [w EXCEPT
                 !.items = Repository_createUser(@, user),
                 !.calls = Append(@, [fn |-> "createUser", arg |-> <<user>>])]
    IN IF username = "" THEN Throw(w1, "username is required")
       ELSE [w1 EXCEPT
               !.calls = Append(@, [fn |-> "present", arg |-> <<outputData>>]),
               !.viewModel = Presenter_present(@, outputData)]

Interactor_executeCreateUser(inputData, w) ==
  IF Falsy(inputData, "id") THEN Throw(w, "id is required")
  ELSE IF Falsy(inputData, "password") THEN Throw(w, "password is required")
  ELSE IF Falsy(inputData, "username") THEN Throw(w, "username is required")
  ELSE
    LET user == User(inputData.id, inputData.username, inputData.password)
        outputData == [id |-> user.id, username |-> user.username]
    IN [w EXCEPT
          !.items = Repository_createUser(@, user),
          !.calls = @ \o <<[fn |-> "createUser", arg |-> <<user>>],
                           [fn |-> "present", arg |-> <<outputData>>]>>,
          !.viewModel = Presenter_present(@, outputData)]

----------------------------------------------------------------------------
\* Controller.  args is the tuple of arguments of the call.

\* getUser(id): inputData = { id }
Controller_getUser(args, w) ==
  LET id == args[1]
      inputData == [id |-> id]
  IN Interactor_executeGetUser(inputData, w)

\* createUser(id, username): inputData = { id, username }; further arguments are not bound
Controller_createUser(args, w) ==
  LET id == args[1]
      username == args[2]
      inputData == [id |-> id, username |-> username]
  IN Interactor_executeCreateUser(inputData, w)

----------------------------------------------------------------------------
\* The calls the model issues

\* inputData objects handed straight to the Interactor: any subset of the properties
ReadInputDatas == {EmptyObject} \cup {[id |-> i] : i \in Ids}

CreateInputDatas ==
  LET Values(f) == CASE f = "id" -> Ids
                     [] f = "username" -> Usernames
                     [] f = "password" -> Passwords
  IN UNION {
       {d \in [D -> Ids \cup Usernames \cup Passwords] : \A f \in D : d[f] \in Values(f)}
       : D \in SUBSET {"id", "username", "password"} }

\* Argument tuples of Controller.getUser and Controller.createUser; a caller
\* may pass createUser a third argument
GetUserArgs == {<<i>> : i \in Ids}

CreateUserArgs ==
  {<<i, u>> : i \in Ids, u \in Usernames}
    \cup {<<i, u, p>> : i \in Ids, u \in Usernames, p \in Passwords}

\* The same call with its non-empty password replaced by any non-empty password
SecretVariants(inputData) ==
  IF Falsy(inputData, "password") THEN {inputData}
  ELSE {[inputData EXCEPT !.password = p] : p \in TwinPasswords}

SecretVariantsArgs(args) ==
  IF Len(args) < 3 \/ args[3] = "" THEN {args}
  ELSE {<<args[1], args[2], p>> : p \in TwinPasswords}

\* The world a call starts in: no collaborator call made yet, nothing thrown
Begin(its, vm) == [items |-> its, viewModel |-> vm, calls |-> <<>>, outcome |-> "ok"]

\* <<the outputData of the last presenter.present(outputData) among the calls cs>>, or <<>>
LastPresented(cs) ==
  LET ps == SelectSeq(cs, LAMBDA c : c.fn = "present")
  IN IF ps = <<>> THEN <<>> ELSE <<ps[Len(ps)].arg[1]>>

\* The world a call ends in becomes the state
Commit(w, tw) ==
  /\ Len(w.items) <= MaxItems
  /\ lastResult' = IF w.outcome = "ok" /\ LastPresented(w.calls) # <<>>
                     THEN LastPresented(w.calls) ELSE lastResult
  /\ items' = w.items
  /\ viewModel' = w.viewModel
  /\ calls' = w.calls
  /\ outcome' = w.outcome
  /\ twinItems' = tw.items
  /\ twinViewModel' = tw.viewModel
  /\ twinCalls' = tw.calls
  /\ twinOutcome' = tw.outcome

\* The end-to-end scenario, run through the Controller on the freshly wired system:
\* createUser("1", "alice", "s3cr3t"), then getUser("1"), then getUser("2")
ScenarioStep(at, op, args) ==
  IF at = "fresh" /\ op = "executeCreateUser" /\ args = <<"1", "alice", "s3cr3t">>
    THEN "written"
  ELSE IF at = "written" /\ op = "executeGetUser" /\ args = <<"1">> THEN "read1"
  ELSE IF at = "read1" /\ op = "executeGetUser" /\ args = <<"2">> THEN "read2"
  ELSE "left"

\* main.ts: an empty Database, an empty ViewModel, nothing called yet
Init ==
  /\ items = <<>>
  /\ viewModel = EmptyObject
  /\ calls = <<>>
  /\ outcome = "none"
  /\ lastCall = [via |-> "none", op |-> "none", args |-> <<>>, inputData |-> EmptyObject]
  /\ created = <<>>
  /\ scenario = "fresh"
  /\ lastResult = <<>>
  /\ probe = <<>>
  /\ twinItems = <<>>
  /\ twinViewModel = EmptyObject
  /\ twinCalls = <<>>
  /\ twinOutcome = "none"

\* The probe after an executeGetUser that ended in world w: this call if it is to
\* be remembered, else the call remembered before
ProbeAfterRead(remember, via, inputData, w) ==
  IF remember
    THEN <<[via |-> via, inputData |-> inputData, outcome |-> w.outcome, calls |-> w.calls]>>
    ELSE probe

\* The probe after an executeCreateUser that ended in world w: dropped once an item is stored
ProbeAfterCreate(w) == IF w.items # items THEN <<>> ELSE probe

\* interactor.executeGetUser(inputData)
CallExecuteGetUser(inputData, remember) ==
  LET w == Interactor_executeGetUser(inputData, Begin(items, viewModel))
  IN /\ Commit(w, Interactor_executeGetUser(inputData, Begin(twinItems, twinViewModel)))
     /\ lastCall' = [via |-> "interactor", op |-> "executeGetUser",
                     args |-> <<inputData>>, inputData |-> inputData]
     /\ scenario' = "left"
     /\ probe' = ProbeAfterRead(remember, "interactor", inputData, w)
     /\ UNCHANGED created

\* interactor.executeCreateUser(inputData); the twin is handed twinInputData
CallExecuteCreateUser(inputData, twinInputData) ==
  LET w == Interactor_executeCreateUser(inputData, Begin(items, viewModel))
  IN /\ Commit(w, Interactor_executeCreateUser(twinInputData, Begin(twinItems, twinViewModel)))
     /\ lastCall' = [via |-> "interactor", op |-> "executeCreateUser",
                     args |-> <<inputData>>, inputData |-> inputData]
     /\ scenario' = "left"
     /\ probe' = ProbeAfterCreate(w)
     /\ created' = IF w.outcome = "ok" THEN Append(created, inputData) ELSE created

\* controller.getUser(id)
CallControllerGetUser(args, remember) ==
  LET w == Controller_getUser(args, Begin(items, viewModel))
  IN /\ Commit(w, Controller_getUser(args, Begin(twinItems, twinViewModel)))
     /\ lastCall' = [via |-> "controller", op |-> "executeGetUser",
                     args |-> args, inputData |-> [id |-> args[1]]]
     /\ scenario' = ScenarioStep(scenario, "executeGetUser", args)
     /\ probe' = ProbeAfterRead(remember, "controller", [id |-> args[1]], w)
     /\ UNCHANGED created

\* controller.createUser(...args); the twin is called with twinArgs
CallControllerCreateUser(args, twinArgs) ==
  LET w == Controller_createUser(args, Begin(items, viewModel))
      inputData == [id |-> args[1], username |-> args[2]]
  IN /\ Commit(w, Controller_createUser(twinArgs, Begin(twinItems, twinViewModel)))
     /\ lastCall' = [via |-> "controller", op |-> "executeCreateUser",
                     args |-> args, inputData |-> inputData]
     /\ scenario' = ScenarioStep(scenario, "executeCreateUser", args)
     /\ probe' = ProbeAfterCreate(w)
     /\ created' = IF w.outcome = "ok" THEN Append(created, inputData) ELSE created

\* Every call, the twin receiving the very same call; any read may be remembered
Next ==
  \/ \E inputData \in ReadInputDatas, remember \in BOOLEAN :
       CallExecuteGetUser(inputData, remember)
  \/ \E inputData \in CreateInputDatas : CallExecuteCreateUser(inputData, inputData)
  \/ \E args \in GetUserArgs, remember \in BOOLEAN : CallControllerGetUser(args, remember)
  \/ \E args \in CreateUserArgs : CallControllerCreateUser(args, args)

Spec == Init /\ [][Next]_vars

\* Every call, the twin receiving any variant of it that differs in the password
\* only; no read is remembered
NextNI ==
  \/ \E inputData \in ReadInputDatas : CallExecuteGetUser(inputData, FALSE)
  \/ \E inputData \in CreateInputDatas :
       \E twinInputData \in SecretVariants(inputData) :
         CallExecuteCreateUser(inputData, twinInputData)
  \/ \E args \in GetUserArgs : CallControllerGetUser(args, FALSE)
  \/ \E args \in CreateUserArgs :
       \E twinArgs \in SecretVariantsArgs(args) : CallControllerCreateUser(args, twinArgs)

SpecNI == Init /\ [][NextNI]_vars

----------------------------------------------------------------------------
\* Vocabulary of the properties

\* The errors thrown for a missing field, and the one thrown for a missing item
IsValidationError(o) ==
  o \in {"id is required", "password is required", "username is required"}

IsNotFoundError(o) == o = "Item not found"

\* The calls to presenter.present among the collaborator calls cs
Presents(cs) == SelectSeq(cs, LAMBDA c : c.fn = "present")

\* The call presenter.present(outputData)
Present(outputData) == [fn |-> "present", arg |-> <<outputData>>]

\* The last call was executeGetUser / executeCreateUser (straight or through the Controller)
IsRead(call) == call.op = "executeGetUser"

IsCreate(call) == call.op = "executeCreateUser"

\* Index of the earliest entry of seq whose id is id (0 if there is none)
FirstWithId(seq, id) ==
  LET matches == {k \in 1..Len(seq) : seq[k].id = id}
  IN IF matches = {} THEN 0
     ELSE CHOOSE k \in matches : \A j \in matches : k <= j

----------------------------------------------------------------------------
\* C1 as claimed: after a successful executeCreateUser, any later executeGetUser of
\* the same id returns and presents exactly the id and username of that create call.
C1_ReadPresentsThatWrite ==
  IsRead(lastCall) =>
    \A k \in 1..Len(created) :
      (~Falsy(lastCall.inputData, "id") /\ created[k].id = lastCall.inputData.id) =>
        /\ outcome = "ok"
        /\ Presents(calls) =
             <<Present([id |-> created[k].id, username |-> created[k].username])>>

\* C1 as amended: after a successful executeCreateUser, any later executeGetUser of
\* the same id returns and presents one outputData that has the properties id and
\* username only, the id of the create call and the username of the earliest
\* successful create call with that id; that is the username of this create call
\* whenever no earlier create call with the same id had succeeded.
C1_ReadPresentsFirstWrite ==
  IsRead(lastCall) =>
    \A k \in 1..Len(created) :
      (~Falsy(lastCall.inputData, "id") /\ created[k].id = lastCall.inputData.id) =>
        LET first == FirstWithId(created, created[k].id)
        IN /\ outcome = "ok"
           /\ Len(Presents(calls)) = 1
           /\ DOMAIN Presents(calls)[1].arg[1] = {"id", "username"}
           /\ Presents(calls)[1].arg[1].id = created[k].id
           /\ Presents(calls)[1].arg[1].username = created[first].username
           /\ first = k => Presents(calls)[1].arg[1].username = created[k].username

\* C1 witness: a read that returned after two successful creates of its id with
\* different usernames
C1_Witness ==
  /\ IsRead(lastCall)
  /\ outcome = "ok"
  /\ Len(created) = 2
  /\ created[1].id = lastCall.inputData.id
  /\ created[2].id = lastCall.inputData.id
  /\ created[1].username # created[2].username
  /\ Presents(calls) # <<>>

\* C2 as claimed: a call through the Controller ends as the same call made straight
\* to the Interactor with an inputData holding every argument (id, username and,
\* for createUser, the password) would: same outcome, same items, same ViewModel.
C2_ControllerForwardsEveryArgument ==
  [][lastCall'.via = "controller" =>
       LET a == lastCall'.args
           inputData ==
             IF IsRead(lastCall') THEN [id |-> a[1]]
             ELSE IF Len(a) = 3 THEN [id |-> a[1], username |-> a[2], password |-> a[3]]
             ELSE [id |-> a[1], username |-> a[2]]
           direct ==
             IF IsRead(lastCall')
               THEN Interactor_executeGetUser(inputData, Begin(items, viewModel))
               ELSE Interactor_executeCreateUser(inputData, Begin(items, viewModel))
       IN /\ outcome' = direct.outcome
          /\ items' = direct.items
          /\ viewModel' = direct.viewModel]_vars

\* C3 as claimed: on the freshly wired system, controller.createUser("1", "alice",
\* "s3cr3t") returns and presents {id: "1", username: "alice"}; then
\* controller.getUser("1") presents the same; then controller.getUser("2") throws
\* "Item not found".
C3_EndToEndScenario ==
  LET pair == [id |-> "1", username |-> "alice"]
  IN /\ scenario = "written" => outcome = "ok" /\ Presents(calls) = <<Present(pair)>>
     /\ scenario = "read1" => outcome = "ok" /\ Presents(calls) = <<Present(pair)>>
     /\ scenario = "read2" => IsNotFoundError(outcome)

\* C4: executeCreateUser checks id, then password, then username: a missing or
\* empty id throws "id is required" whatever the rest; with an id, a missing or
\* empty password throws "password is required" whatever the username; with both,
\* a missing or empty username throws "username is required".
C4_ValidationOrder ==
  IsCreate(lastCall) =>
    LET d == lastCall.inputData
    IN /\ Falsy(d, "id") => outcome = "id is required"
       /\ (~Falsy(d, "id") /\ Falsy(d, "password")) => outcome = "password is required"
       /\ (~Falsy(d, "id") /\ ~Falsy(d, "password") /\ Falsy(d, "username")) =>
            outcome = "username is required"
       /\ (Falsy(d, "id") \/ Falsy(d, "password") \/ Falsy(d, "username")) =>
            IsValidationError(outcome)

\* C4 witness: a create call with an id and neither password nor username was
\* refused for its password
C4_Witness ==
  /\ IsCreate(lastCall)
  /\ lastCall.via = "interactor"
  /\ ~Falsy(lastCall.inputData, "id")
  /\ Falsy(lastCall.inputData, "password")
  /\ Falsy(lastCall.inputData, "username")
  /\ outcome = "password is required"

\* C5: an executeCreateUser that throws a validation error calls neither the
\* Repository nor the Presenter and leaves items and the ViewModel as they were.
C5_FailedWriteHasNoEffect ==
  [][(IsCreate(lastCall') /\ IsValidationError(outcome')) =>
       /\ calls' = <<>>
       /\ items' = items
       /\ viewModel' = viewModel]_vars

\* C5 witness: a create call was refused while items and the ViewModel were non-empty
C5_Witness ==
  /\ IsCreate(lastCall)
  /\ IsValidationError(outcome)
  /\ items # <<>>
  /\ viewModel # EmptyObject

\* C6: executeGetUser with a missing or empty id throws "id is required" and calls
\* neither the Repository nor the Presenter, whatever items holds.
C6_ReadWithoutIdIsRefused ==
  (IsRead(lastCall) /\ Falsy(lastCall.inputData, "id")) =>
    /\ outcome = "id is required"
    /\ IsValidationError(outcome)
    /\ calls = <<>>

\* C6 witness: a read with an empty id was refused while items was non-empty
C6_Witness ==
  /\ IsRead(lastCall)
  /\ "id" \in DOMAIN lastCall.inputData
  /\ lastCall.inputData.id = ""
  /\ outcome = "id is required"
  /\ items # <<>>

\* C7: executeGetUser with a non-empty id that no successful executeCreateUser was
\* given throws the Database's "Item not found", does not call the Presenter and
\* leaves the ViewModel and items as they were.
C7_ReadOfUnknownIdIsNotFound ==
  [][(/\ IsRead(lastCall')
      /\ ~Falsy(lastCall'.inputData, "id")
      /\ FirstWithId(created', lastCall'.inputData.id) = 0) =>
       /\ outcome' = "Item not found"
       /\ IsNotFoundError(outcome')
       /\ Presents(calls') = <<>>
       /\ viewModel' = viewModel
       /\ items' = items]_vars

\* C7 witness: a read of an unknown id was refused while items and the ViewModel
\* were non-empty
C7_Witness ==
  /\ IsRead(lastCall)
  /\ IsNotFoundError(outcome)
  /\ items # <<>>
  /\ viewModel # EmptyObject

\* C8: every outputData handed to the Presenter has the properties id and username
\* only, the ViewModel has no other property, and the twin run, whose calls differ
\* in the non-empty passwords only, ends every call with the same outcome, the same
\* calls to the Presenter and the same ViewModel.
C8_PasswordStaysInside ==
  /\ \A k \in 1..Len(calls) :
       calls[k].fn = "present" => DOMAIN calls[k].arg[1] = {"id", "username"}
  /\ DOMAIN viewModel \subseteq {"id", "username"}
  /\ twinOutcome = outcome
  /\ Presents(twinCalls) = Presents(calls)
  /\ twinViewModel = viewModel

\* C8 witness: a read returned and presented a User whose password differs in the
\* twin run
C8_Witness ==
  /\ IsRead(lastCall)
  /\ outcome = "ok"
  /\ Presents(calls) # <<>>
  /\ \E k \in 1..Len(items) :
       /\ items[k].id = lastCall.inputData.id
       /\ items[k].password # twinItems[k].password

\* C9: a valid executeCreateUser whose id is already stored returns and appends its
\* User, keeping the stored ones; an executeGetUser of an id stored more than once
\* returns and presents the username of the earliest stored User with that id.
C9_DuplicateIds ==
  [][/\ (/\ IsCreate(lastCall')
         /\ ~Falsy(lastCall'.inputData, "id")
         /\ ~Falsy(lastCall'.inputData, "password")
         /\ ~Falsy(lastCall'.inputData, "username")
         /\ FirstWithId(items, lastCall'.inputData.id) # 0) =>
          /\ outcome' = "ok"
          /\ items' = Append(items, User(lastCall'.inputData.id,
                                         lastCall'.inputData.username,
                                         lastCall'.inputData.password))
     /\ (/\ IsRead(lastCall')
         /\ ~Falsy(lastCall'.inputData, "id")
         /\ Cardinality({k \in 1..Len(items') :
                           items'[k].id = lastCall'.inputData.id}) > 1) =>
          /\ outcome' = "ok"
          /\ Presents(calls') =
               <<Present([id |-> lastCall'.inputData.id,
                          username |->
                            items'[FirstWithId(items', lastCall'.inputData.id)].username])>>
    ]_vars

\* C9 witness: a read presented the username of the first of two stored Users with
\* its id, which is not the username of the second
C9_Witness ==
  /\ IsRead(lastCall)
  /\ outcome = "ok"
  /\ Len(items) = 2
  /\ items[1].id = items[2].id
  /\ items[1].username # items[2].username
  /\ viewModel = [id |-> items[1].id, username |-> items[1].username]

\* C10: an executeCreateUser that returns has called repository.createUser once and
\* then presenter.present once, nothing else; the User stored holds the id,
\* username and password of inputData and is appended to items once; the outputData
\* presented holds the id and username of that User.
C10_SuccessfulWriteInsertsThenPresents ==
  [][(IsCreate(lastCall') /\ outcome' = "ok") =>
       LET d == lastCall'.inputData
           user == [id |-> d.id, username |-> d.username, password |-> d.password]
       IN /\ calls' = <<[fn |-> "createUser", arg |-> <<user>>],
                        Present([id |-> user.id, username |-> user.username])>>
          /\ items' = Append(items, user)]_vars

\* C10 witness: a create call returned and stored the second item
C10_Witness ==
  /\ IsCreate(lastCall)
  /\ outcome = "ok"
  /\ Len(items) = 2
  /\ Len(calls) = 2

\* C11: an executeGetUser that returns has called repository.getUser once with the
\* id and then presenter.present once, nothing else, and the outputData presented
\* holds the id and username of the stored User that the lookup yields; an
\* executeGetUser that throws (for its id, or for a missing item) has not called
\* presenter.present.
C11_ReadFetchesThenPresents ==
  IsRead(lastCall) =>
    /\ outcome = "ok" =>
         LET id == lastCall.inputData.id
             fetched == items[FirstWithId(items, id)]
         IN calls = <<[fn |-> "getUser", arg |-> <<id>>],
                      Present([id |-> fetched.id, username |-> fetched.username])>>
    /\ outcome # "ok" =>
         /\ IsValidationError(outcome) \/ IsNotFoundError(outcome)
         /\ Presents(calls) = <<>>

\* C11 witness: a read returned with two items stored, the second one being the
\* one looked up
C11_Witness ==
  /\ IsRead(lastCall)
  /\ outcome = "ok"
  /\ Len(items) = 2
  /\ items[1].id # lastCall.inputData.id
  /\ items[2].id = lastCall.inputData.id
  /\ Len(calls) = 2

\* C13: every call leaves the items stored before it in place, unchanged and in
\* order, as a prefix of items; items grows by exactly one item, at the end, in the
\* calls that are an executeCreateUser that returns, and in no other call; and the
\* number of items equals the number of executeCreateUser calls that have returned.
C13_StoreIsAppendOnly ==
  [][/\ Len(items') >= Len(items)
     /\ SubSeq(items', 1, Len(items)) = items
     /\ (IsCreate(lastCall') /\ outcome' = "ok") => Len(items') = Len(items) + 1
     /\ ~(IsCreate(lastCall') /\ outcome' = "ok") => items' = items
     /\ Len(items) = Len(created)
     /\ Len(items') = Len(created')]_vars

\* C13 witness: a create call returned and stored a second, different item behind
\* the first
C13_Witness ==
  /\ IsCreate(lastCall)
  /\ outcome = "ok"
  /\ Len(created) = 2
  /\ Len(items) = 2
  /\ items[1] # items[2]
  /\ items[2].id = lastCall.inputData.id
  /\ items[2].username = lastCall.inputData.username

\* C12: an executeGetUser never changes items, and it ends as any earlier
\* executeGetUser with the same inputData did when no item was stored in between
\* (whatever other reads and refused creates were issued in between): the same
\* outcome, "ok" or the same error, and the same outputData presented.
C12_ReadsAreRepeatable ==
  [][IsRead(lastCall') =>
       /\ items' = items
       /\ (probe # <<>> /\ probe[1].inputData = lastCall'.inputData) =>
            /\ outcome' = probe[1].outcome
            /\ Presents(calls') = Presents(probe[1].calls)]_vars

\* C12 witness: a read returned that repeats a remembered read of the same id,
\* which was issued by the other caller, with no item stored in between
C12_Witness ==
  /\ IsRead(lastCall)
  /\ outcome = "ok"
  /\ probe # <<>>
  /\ probe[1].inputData = lastCall.inputData
  /\ probe[1].via # lastCall.via
  /\ Len(items) = 2

\* C14: the ViewModel is empty as long as no call has returned; after that it holds
\* exactly the id and username of the outputData of the latest call that returned,
\* both from that one outputData; a call that throws leaves the ViewModel as it was.
C14_ViewModelHoldsLatestResult ==
  [][/\ lastResult = <<>> => viewModel = EmptyObject
     /\ lastResult' = <<>> => viewModel' = EmptyObject
     /\ lastResult' # <<>> =>
          viewModel' = [id |-> lastResult'[1].id, username |-> lastResult'[1].username]
     /\ outcome' = "ok" =>
          /\ Presents(calls') # <<>>
          /\ lastResult' = <<Presents(calls')[Len(Presents(calls'))].arg[1]>>
     /\ outcome' # "ok" => (viewModel' = viewModel /\ lastResult' = lastResult)]_vars

\* C14 witness: a call threw after two calls with different outputData had
\* returned, and the ViewModel still holds the later one
C14_Witness ==
  /\ outcome # "ok"
  /\ Len(items) = 2
  /\ items[1].id # items[2].id
  /\ lastResult # <<>>
  /\ viewModel = [id |-> items[1].id, username |-> items[1].username]
  /\ viewModel = lastResult[1]

====
